---- MODULE Spec2Model ----
(***************************************************************************)
(* Model of the ltl-compiler front end: the recursive-descent Parser       *)
(* (src/src/lexer/parser.rs) and the tree-walking Interpreter              *)
(* (src/src/lexer/interpreter.rs) over the chained Environment.            *)
(*                                                                         *)
(* Expressions and statements are tagged tuples whose first element is the *)
(* name of the enum variant:                                               *)
(*   <<"Literal", value>>        <<"Grouping", expression>>                *)
(*   <<"Unary", operator, right>>                                          *)
(*   <<"Binary", left, operator, right>>                                   *)
(*   <<"Logical", left, operator, right>>                                  *)
(*   <<"Variable", name>>        <<"Assign", name, value>>                 *)
(*   <<"Expression", e>>  <<"Print", e>>  <<"Let", name, initializer>>     *)
(*   <<"Block", statements>>                                               *)
(*   <<"If", condition, thenBranch, elseBranch>>                           *)
(* An Option is the empty tuple (None) or a one-element tuple (Some).      *)
(* An operator token is represented by its token_type, a name token by its *)
(* lexeme.  Numbers are the integers, standing for the f64 values they     *)
(* denote.                                                                 *)
(***************************************************************************)
EXTENDS Integers, Sequences, FiniteSets, TLC

VARIABLES environment, out, stmt, pc, result, steps,
          tokens, current, statements, parsed

vars == <<environment, out, stmt, pc, result, steps,
          tokens, current, statements, parsed>>

interpVars == <<environment, out, stmt, pc, result, steps>>

parserVars == <<tokens, current, statements, parsed>>

(***************************************************************************)
(* Runtime values (ExprLiteral).                                           *)
(***************************************************************************)
NumberLiteral(n) == [t |-> "NumberLiteral", n |-> n, s |-> ""]

StringLiteral(s) == [t |-> "StringLiteral", n |-> 0, s |-> s]

LitTrue == [t |-> "True", n |-> 0, s |-> ""]

LitFalse == [t |-> "False", n |-> 0, s |-> ""]

LitNil == [t |-> "Nil", n |-> 0, s |-> ""]

\* ExprLiteral::is_equal: same kind and same payload; Nil equals only Nil.
is_equal(l, r) == l.t = r.t /\ l.n = r.n /\ l.s = r.s

\* ExprLiteral::two_string: the text a print statement emits.
two_string(v) ==
  CASE v.t = "NumberLiteral" -> ToString(v.n)
    [] v.t = "StringLiteral" -> v.s
    [] v.t = "True" -> "true"
    [] v.t = "False" -> "false"
    [] OTHER -> "nil"

(***************************************************************************)
(* Environment: a scope is [values, enclosing]; enclosing is an Option of  *)
(* the owned parent scope.                                                 *)
(***************************************************************************)
NoValues == [n \in {} |-> LitNil]

EnvironmentNew(enclosing) == [values |-> NoValues, enclosing |-> enclosing]

define(env, name, value) ==
  [env EXCEPT !.values = (name :> value) @@ env.values]

RECURSIVE get(_, _)
get(env, name) ==
  IF name \in DOMAIN env.values
  THEN [ok |-> TRUE, v |-> env.values[name]]
  ELSE IF env.enclosing = <<>>
       THEN [ok |-> FALSE, v |-> LitNil]
       ELSE get(env.enclosing[1], name)

RECURSIVE assign(_, _, _)
assign(env, name, value) ==
  IF name \in DOMAIN env.values
  THEN [ok |-> TRUE, env |-> [env EXCEPT !.values[name] = value]]
  ELSE IF env.enclosing = <<>>
       THEN [ok |-> FALSE, env |-> env]
       ELSE LET r == assign(env.enclosing[1], name, value)
            IN  [ok |-> r.ok, env |-> [env EXCEPT !.enclosing = <<r.env>>]]

\* Number of scopes enclosing env (0 for the global scope).
RECURSIVE Depth(_)
Depth(env) == IF env.enclosing = <<>> THEN 0 ELSE 1 + Depth(env.enclosing[1])

(***************************************************************************)
(* Interpreter: expression evaluation.                                     *)
(***************************************************************************)
Ok(v, env) == [ok |-> TRUE, v |-> v, env |-> env, err |-> ""]

Err(kind, env) == [ok |-> FALSE, v |-> LitNil, env |-> env, err |-> kind]

is_truthy(expr) ==
  IF expr.t \in {"False", "Nil"} THEN LitFalse ELSE LitTrue

check_number_operand(operand) == operand.t = "NumberLiteral"

\* A check that looks at the left operand only.
check_number_operands_LeftOnly(l_operand, r_operand) ==
  check_number_operand(l_operand)

check_number_operands(l_operand, r_operand) ==
  check_number_operand(l_operand) /\ check_number_operand(r_operand)

\* f64 division on the modelled numbers: exact quotients only; a division
\* whose result is not one of the modelled numbers yields NotModelled.
NotModelled == [t |-> "NumberLiteral", n |-> 0, s |-> "non-integer"]

F64Div(l, r) ==
  LET d == IF r.n < 0 THEN -r.n ELSE r.n
  IN  IF l.s = "" /\ r.s = "" /\ r.n # 0 /\ l.n % d = 0
      THEN NumberLiteral(IF r.n < 0 THEN -(l.n \div d) ELSE l.n \div d)
      ELSE NotModelled

F64Arith(l, r, n) == IF l.s = "" /\ r.s = "" THEN NumberLiteral(n) ELSE NotModelled

Bool(b) == IF b THEN LitTrue ELSE LitFalse

\* A Binary that checks the kind of its left operand first and gives up
\* before the right operand is evaluated.
EvaluatesRight_IfLeftFits(op, l) ==
  CASE op \in {"EqualEqual", "BangEqual"} -> TRUE
    [] op = "Plus" -> l.t \in {"NumberLiteral", "StringLiteral"}
    [] OTHER -> l.t = "NumberLiteral"

\* Expr::Binary: `let right_operand = self.evaluate(right)?` follows the
\* left operand whatever its value is.
EvaluatesRight(op, l) == TRUE

\* The `match operator.token_type` of Expr::Binary, applied to the two
\* evaluated operands.
BinaryOp(op, l, r, env) ==
  CASE op = "Minus" ->
         IF check_number_operands(l, r)
         THEN Ok(F64Arith(l, r, l.n - r.n), env) ELSE Err("TypeError", env)
    [] op = "Slash" ->
         IF check_number_operands(l, r)
         THEN Ok(F64Div(l, r), env) ELSE Err("TypeError", env)
    [] op = "Star" ->
         IF check_number_operands(l, r)
         THEN Ok(F64Arith(l, r, l.n * r.n), env) ELSE Err("TypeError", env)
    [] op = "Plus" ->
         IF l.t = "NumberLiteral" /\ r.t = "NumberLiteral"
         THEN Ok(F64Arith(l, r, l.n + r.n), env)
         ELSE IF l.t = "StringLiteral" /\ r.t = "StringLiteral"
              THEN Ok(StringLiteral(l.s \o r.s), env)
              ELSE Err("TypeError", env)
    [] op = "Greater" ->
         IF check_number_operands(l, r)
         THEN Ok(Bool(l.n > r.n), env) ELSE Err("TypeError", env)
    [] op = "GreaterEqual" ->
         IF check_number_operands(l, r)
         THEN Ok(Bool(l.n >= r.n), env) ELSE Err("TypeError", env)
    [] op = "Less" ->
         IF check_number_operands(l, r)
         THEN Ok(Bool(l.n < r.n), env) ELSE Err("TypeError", env)
    [] op = "LessEqual" ->
         IF check_number_operands(l, r)
         THEN Ok(Bool(l.n <= r.n), env) ELSE Err("TypeError", env)
    [] op = "EqualEqual" -> Ok(Bool(is_equal(l, r)), env)
    [] op = "BangEqual" -> Ok(Bool(~is_equal(l, r)), env)
    [] OTHER -> Err("TypeError", env)

\* Expr::Unary with operator Bang, applied to the evaluated operand.
UnaryBang(evaluated) == is_truthy(evaluated)

\* A Logical that tests the left value the same way for both operators.
LogicalReturnsLeft_SameTest(op, left) == is_truthy(left) = LitTrue

\* Expr::Logical: TRUE when the left value is returned without evaluating
\* the right operand.
LogicalReturnsLeft(op, left) ==
  IF op = "Or"
  THEN is_truthy(left) = LitTrue
  ELSE is_truthy(left) = LitFalse

\* An Assign that binds in the current scope instead of searching the chain.
AssignStore_Define(env, name, new_value) ==
  [ok |-> TRUE, env |-> define(env, name, new_value)]

\* An Assign that declares the name when no scope of the chain defines it.
AssignStore_DefineOnMiss(env, name, new_value) ==
  IF assign(env, name, new_value).ok
  THEN assign(env, name, new_value)
  ELSE [ok |-> TRUE, env |-> define(env, name, new_value)]

\* Expr::Assign: store the evaluated value.
AssignStore(env, name, new_value) == assign(env, name, new_value)

\* An Assign whose own value is nil.
AssignResult_Nil(new_value) == LitNil

\* Expr::Assign: the value of the assignment expression, Ok(new_value).
AssignResult(new_value) == new_value

RECURSIVE match_expr(_, _)
evaluate(expr, env) == match_expr(expr, env)

match_expr(expr, env) ==
  CASE expr[1] = "Literal" -> Ok(expr[2], env)
    [] expr[1] = "Grouping" -> evaluate(expr[2], env)
    [] expr[1] = "Unary" ->
         IF expr[2] = "Minus"
         THEN LET r == evaluate(expr[3], env)
              IN  IF ~r.ok THEN r
                  ELSE IF r.v.t = "NumberLiteral"
                       THEN Ok(F64Arith(r.v, r.v, -r.v.n), r.env)
                       ELSE Err("TypeError", r.env)
         ELSE IF expr[2] = "Bang"
              THEN LET r == evaluate(expr[3], env)
                   IN  IF ~r.ok THEN r ELSE Ok(UnaryBang(r.v), r.env)
              ELSE Err("TypeError", env)
    [] expr[1] = "Variable" ->
         LET g == get(env, expr[2])
         IN  IF g.ok THEN Ok(g.v, env) ELSE Err("NameError", env)
    [] expr[1] = "Assign" ->
         LET r == evaluate(expr[3], env)
         IN  IF ~r.ok THEN r
             ELSE LET a == AssignStore(r.env, expr[2], r.v)
                  IN  IF a.ok THEN Ok(AssignResult(r.v), a.env)
                      ELSE Err("NameError", a.env)
    [] expr[1] = "Logical" ->
         LET left == evaluate(expr[2], env)
         IN  IF ~left.ok THEN left
             ELSE IF LogicalReturnsLeft(expr[3], left.v)
                  THEN left
                  ELSE evaluate(expr[4], left.env)
    [] expr[1] = "Binary" ->
         LET left_operand == evaluate(expr[2], env)
         IN  IF ~left_operand.ok THEN left_operand
             ELSE IF ~EvaluatesRight(expr[3], left_operand.v)
                  THEN Err("TypeError", left_operand.env)
                  ELSE LET right_operand == evaluate(expr[4], left_operand.env)
                       IN  IF ~right_operand.ok THEN right_operand
                           ELSE BinaryOp(expr[3], left_operand.v,
                                         right_operand.v, right_operand.env)

(***************************************************************************)
(* Interpreter: statement execution.  A statement maps the environment and *)
(* the lines printed so far to a new environment and output, or fails.     *)
(***************************************************************************)
SOk(env, o) == [ok |-> TRUE, env |-> env, out |-> o, err |-> ""]

SErr(kind, env, o) == [ok |-> FALSE, env |-> env, out |-> o, err |-> kind]

\* A Let that binds whatever the initializer is.
LetBinds_Always(initializer) == TRUE

\* Stmt::Let: the test that decides whether the declaration binds.
LetBinds(initializer) == initializer # <<"Literal", LitNil>>

\* Stmt::Block: the scope installed on entry.
BlockEnter(env) == EnvironmentNew(<<env>>)

\* A Block that keeps its own scope installed on exit.
BlockExit_NoPop(env) == env

\* Stmt::Block: the scope installed after the statements have run.
BlockExit(env) == env.enclosing[1]

\* An If that takes the then-branch only for the Boolean true.
IfTakesThen_OnlyTrue(if_condition) == if_condition = LitTrue

\* Stmt::If: the test that selects the then-branch.
IfTakesThen(if_condition) == is_truthy(if_condition) = LitTrue

\* A loop that carries on after a failed statement.
Aborts_Never(r) == FALSE

\* Interpreter::interpreter: the `?` that ends the loop on an error.
Aborts(r) == ~r.ok

RECURSIVE execute(_, _, _), interpreter(_, _, _)
execute(statement, env, o) ==
  CASE statement[1] = "Expression" ->
         LET r == evaluate(statement[2], env)
         IN  IF r.ok THEN SOk(r.env, o) ELSE SErr(r.err, r.env, o)
    [] statement[1] = "Print" ->
         LET r == evaluate(statement[2], env)
         IN  IF r.ok THEN SOk(r.env, Append(o, two_string(r.v)))
             ELSE SErr(r.err, r.env, o)
    [] statement[1] = "Let" ->
         IF LetBinds(statement[3])
         THEN LET r == evaluate(statement[3], env)
              IN  IF r.ok THEN SOk(define(r.env, statement[2], r.v), o)
                  ELSE SErr(r.err, r.env, o)
         ELSE SOk(env, o)
    [] statement[1] = "Block" ->
         LET r == interpreter(statement[2], BlockEnter(env), o)
         IN  IF ~r.ok THEN r
             ELSE SOk(BlockExit(r.env), r.out)
    [] statement[1] = "If" ->
         LET if_condition == evaluate(statement[2], env)
         IN  IF ~if_condition.ok
             THEN SErr(if_condition.err, if_condition.env, o)
             ELSE IF IfTakesThen(if_condition.v)
                  THEN execute(statement[3], if_condition.env, o)
                  ELSE IF statement[4] # <<>>
                       THEN execute(statement[4][1], if_condition.env, o)
                       ELSE SOk(if_condition.env, o)

interpreter(stmts, env, o) ==
  IF stmts = <<>> THEN SOk(env, o)
  ELSE LET r == execute(Head(stmts), env, o)
       IN  IF Aborts(r) THEN r
           ELSE interpreter(Tail(stmts), r.env, r.out)

(***************************************************************************)
(* Inputs of the interpreter.                                              *)
(***************************************************************************)
\* Statements executed by one Interpreter, over all the calls made on it.
MaxSteps == 3

Lit(v) == <<"Literal", v>>

Var(name) == <<"Variable", name>>

Values ==
  {NumberLiteral(0), NumberLiteral(1), StringLiteral(""), StringLiteral("s"),
   LitTrue, LitFalse, LitNil}

LetStmts ==
  {<<"Let", "a", Lit(v)>> : v \in Values}
    \cup {<<"Let", "b", Lit(NumberLiteral(1))>>,
          <<"Let", "b", Lit(LitNil)>>,
          <<"Let", "a", <<"Grouping", Lit(LitNil)>>>>,
          <<"Let", "a", Var("b")>>,
          <<"Let", "b", Var("u")>>}

ShowStmts == {<<"Print", Var("a")>>, <<"Print", Var("b")>>}

Incr(name) ==
  <<"Assign", name, <<"Binary", Var(name), "Plus", Lit(NumberLiteral(1))>>>>

AssignStmts ==
  {<<"Print", <<"Assign", "a", Lit(v)>>>> :
      v \in {NumberLiteral(1), StringLiteral("s")}}
    \cup {<<"Expression", Incr("a")>>}

UnaryStmts ==
  {<<"Let", "b", <<"Unary", op, Var("a")>>>> : op \in {"Bang", "Minus"}}

LogicalStmts ==
  {<<"Let", "b", <<"Logical", Var("a"), op, right>>>> :
      op \in {"And", "Or"},
      right \in {<<"Assign", "a", Lit(StringLiteral("s"))>>, Var("u")}}
    \cup {<<"Expression", <<"Logical", Var("u"), "Or", Lit(LitTrue)>>>>,
          <<"Let", "b", <<"Logical", <<"Assign", "a", Lit(LitNil)>>, "Or",
                          Var("a")>>>>}

EmitT == <<"Print", Lit(StringLiteral("t"))>>

EmitE == <<"Print", Lit(StringLiteral("e"))>>

IfStmts ==
  {<<"If", Var("a"), EmitT, els>> : els \in {<<>>, <<EmitE>>}}
    \cup {<<"If", <<"Binary", Incr("a"), "Greater", Lit(NumberLiteral(1))>>,
            <<"Print", Var("a")>>, <<EmitE>>>>,
          <<"If", Var("u"), EmitT, <<EmitE>>>>,
          <<"If", Var("a"),
            <<"Block", << <<"Let", "b", Lit(LitTrue)>>, <<"Print", Var("b")>> >> >>,
            << <<"Expression", Var("u")>> >> >>}

BlockStmts ==
  {<<"Block", <<>>>>,
   <<"Block", << <<"Let", "a", Lit(StringLiteral("s"))>>,
                 <<"Print", Var("a")>> >> >>,
   <<"Block", << <<"Let", "b", Lit(NumberLiteral(0))>>,
                 <<"Print", Var("b")>> >> >>,
   <<"Block", << <<"Expression", <<"Assign", "a", Lit(NumberLiteral(1))>>>> >> >>,
   <<"Block", << <<"Block",
       << <<"Expression", <<"Assign", "a", Lit(LitFalse)>>>> >> >> >> >>,
   <<"Block", << <<"Let", "a", Lit(NumberLiteral(0))>>,
                 <<"Block", << <<"Expression", Incr("a")>> >> >>,
                 <<"Print", Var("a")>> >> >>,
   <<"Block", << <<"Expression", Var("u")>> >> >>,
   <<"Block", << <<"Let", "b", Lit(NumberLiteral(1))>>,
                 <<"Block", << <<"Expression", Var("u")>> >> >> >> >>,
   <<"Block", << EmitT,
                 <<"Expression", <<"Unary", "Minus", Var("a")>>>>,
                 EmitE >> >>}

FailingStmts ==
  {<<"Expression", Var("u")>>,
   <<"Expression", <<"Assign", "u", Lit(NumberLiteral(1))>>>>,
   <<"Expression",
     <<"Binary", <<"Assign", "a", Lit(NumberLiteral(1))>>, "Plus", Lit(LitNil)>>>>,
   <<"Expression", <<"Binary", Var("a"), "Plus", Var("b")>>>>,
   <<"Expression",
     <<"Assign", "u", <<"Assign", "a", Lit(NumberLiteral(1))>>>>>>,
   <<"Block", << <<"Expression", <<"Assign", "u", Lit(NumberLiteral(1))>>>> >> >>}

\* Binary expressions whose left operand has the wrong kind:
\*   nil - (a = a + 1);   true + (a = "s");   nil - u;
LeftMismatchStmts ==
  {<<"Expression",
     <<"Binary", Lit(LitNil), "Minus", <<"Grouping", Incr("a")>>>>>>,
   <<"Expression",
     <<"Binary", Lit(LitTrue), "Plus",
       <<"Grouping", <<"Assign", "a", Lit(StringLiteral("s"))>>>>>>>>,
   <<"Expression", <<"Binary", Lit(LitNil), "Minus", Var("u")>>>>}

Stmts ==
  LetStmts \cup ShowStmts \cup AssignStmts \cup UnaryStmts \cup LogicalStmts \cup IfStmts
    \cup BlockStmts \cup FailingStmts \cup LeftMismatchStmts

(***************************************************************************)
(* The interpreter as a state machine: one Interpreter value, on which     *)
(* Interpreter::interpreter is called again and again.  The vector of      *)
(* statements is an input; each iteration of the loop draws the next one.  *)
(* pc counts the statements executed in the current call, out holds the    *)
(* lines it has printed, steps counts the statements executed in all.      *)
(***************************************************************************)
Idle == [status |-> "idle", err |-> ""]

Running == [status |-> "running", err |-> ""]

NoParse == [status |-> "idle", statements |-> <<>>, errors |-> <<>>]

Init ==
  /\ environment = EnvironmentNew(<<>>)
  /\ out = <<>>
  /\ stmt = <<>>
  /\ pc = 0
  /\ result = Idle
  /\ steps = 0
  /\ tokens = <<>>
  /\ current = 0
  /\ statements = <<>>
  /\ parsed = NoParse

\* Interpreter::interpreter is called.
Run ==
  /\ result.status # "running"
  /\ result' = Running
  /\ pc' = 0
  /\ out' = <<>>
  /\ stmt' = <<>>
  /\ UNCHANGED <<environment, steps, parserVars>>

\* One iteration of the loop, the next statement being one of `program`.
Iteration(program) ==
  /\ result.status = "running"
  /\ steps < MaxSteps
  /\ \E s \in program :
        LET r == execute(s, environment, out)
        IN  /\ stmt' = s
            /\ environment' = r.env
            /\ out' = r.out
            /\ result' = IF Aborts(r) THEN [status |-> "err", err |-> r.err]
                         ELSE result
  /\ pc' = pc + 1
  /\ steps' = steps + 1
  /\ UNCHANGED parserVars

\* One iteration of the loop: execute the next statement.
Step == Iteration(Stmts)

\* The loop has run out of statements: Ok(()).
Return ==
  /\ result.status = "running"
  /\ result' = [status |-> "ok", err |-> ""]
  /\ UNCHANGED <<environment, out, stmt, pc, steps, parserVars>>

Next == Run \/ Step \/ Return

Spec == Init /\ [][Next]_vars

(***************************************************************************)
(* The operators of Expr::Unary and Expr::Binary as functions of their     *)
(* operand values: an Interpreter whose global scope binds a and b to any  *)
(* two values, executing statements that apply one operator to them.       *)
(***************************************************************************)
NumberOperators ==
  {"Minus", "Slash", "Star", "Greater", "GreaterEqual", "Less", "LessEqual"}

\* let b = a <op> b;
Apply(op) == <<"Let", "b", <<"Binary", Var("a"), op, Var("b")>>>>

\* let b = -a;
Negate == <<"Let", "b", <<"Unary", "Minus", Var("a")>>>>

OperatorStmts ==
  {Apply(op) : op \in NumberOperators \cup {"Plus", "EqualEqual", "BangEqual"}}
    \cup {Negate}

OperatorInit ==
  /\ \E l \in Values : \E r \in Values :
        environment = define(define(EnvironmentNew(<<>>), "a", l), "b", r)
  /\ out = <<>>
  /\ stmt = <<>>
  /\ pc = 0
  /\ result = Running
  /\ steps = 0
  /\ tokens = <<>>
  /\ current = 0
  /\ statements = <<>>
  /\ parsed = NoParse

OperatorStep == Iteration(OperatorStmts)

OperatorNext == Run \/ OperatorStep \/ Return

OperatorSpec == OperatorInit /\ [][OperatorNext]_vars

(***************************************************************************)
(* Parser.  A token is [token_type, lexeme, literial, line_number]; the    *)
(* cursor `current` counts the tokens consumed, so the token under the     *)
(* cursor is toks[cur + 1] and the previous one toks[cur].  Every parsing  *)
(* method returns [ok, node, cur, err]: the node built (or the token       *)
(* consumed), the cursor it leaves, and on failure the line and lexeme the *)
(* message reports.                                                        *)
(***************************************************************************)
NoErr == [line |-> 0, lexeme |-> ""]

POk(node, cur) == [ok |-> TRUE, node |-> node, cur |-> cur, err |-> NoErr]

PErr(tok, cur) ==
  [ok |-> FALSE, node |-> <<>>, cur |-> cur,
   err |-> [line |-> tok.line_number, lexeme |-> tok.lexeme]]

peek(toks, cur) == toks[cur + 1]

previous(toks, cur) == toks[cur]

is_at_end(toks, cur) == peek(toks, cur).token_type = "Eof"

check(toks, cur, token_type) ==
  IF is_at_end(toks, cur) THEN FALSE
  ELSE peek(toks, cur).token_type = token_type

\* The cursor advance() leaves.
advance(toks, cur) == IF ~is_at_end(toks, cur) THEN cur + 1 ELSE cur

\* match_tokens: TRUE when the token under the cursor has one of the types;
\* the cursor then moves to advance(toks, cur).
match_tokens(toks, cur, token_types) ==
  \E token_type \in token_types : check(toks, cur, token_type)

consume(toks, cur, token_type) ==
  IF check(toks, cur, token_type)
  THEN POk(previous(toks, advance(toks, cur)), advance(toks, cur))
  ELSE PErr(peek(toks, cur), cur)

SyncKeywords ==
  {"CLass", "Fun", "Var", "For", "If", "While", "Print", "Return"}

RECURSIVE synchronize_loop(_, _)
synchronize_loop(toks, cur) ==
  IF is_at_end(toks, cur) THEN cur
  ELSE IF previous(toks, cur).token_type = "Semicolon" THEN cur
  ELSE IF peek(toks, cur).token_type \in SyncKeywords THEN cur
  ELSE synchronize_loop(toks, advance(toks, cur))

\* A recovery that starts over from the first token.
synchronize_Restart(toks, cur) == 0

synchronize(toks, cur) == synchronize_loop(toks, advance(toks, cur))

RECURSIVE declaration(_, _), var_declaration(_, _), statement(_, _),
          print_statement(_, _), expression_statement(_, _), block(_, _),
          block_loop(_, _, _), expression(_, _), assignment(_, _),
          equality(_, _), equality_loop(_, _, _), comparision(_, _),
          comparision_loop(_, _, _), term(_, _), term_loop(_, _, _),
          factor(_, _), factor_loop(_, _, _), unary(_, _), primary(_, _)

\* The element of a singleton.  A parsing method binds the result of each
\* call it makes as The({body : r \in {call}}), the let of the source with
\* the call evaluated exactly once.
The(S) == CHOOSE x \in S : TRUE

declaration(toks, cur) ==
  IF match_tokens(toks, cur, {"Var"})
  THEN The({IF r.ok THEN r ELSE [r EXCEPT !.cur = synchronize(toks, r.cur)] :
            r \in {var_declaration(toks, advance(toks, cur))}})
  ELSE The({IF r.ok THEN r ELSE [r EXCEPT !.cur = synchronize(toks, r.cur)] :
            r \in {statement(toks, cur)}})

var_declaration(toks, cur) ==
  LET name == consume(toks, cur, "Identifier")
  IN  IF ~name.ok THEN name
      ELSE The({IF ~init.ok THEN init
                ELSE LET semi == consume(toks, init.cur, "Semicolon")
                     IN  IF ~semi.ok THEN semi
                         ELSE POk(<<"Var", name.node.lexeme, init.node>>,
                                  semi.cur) :
                init \in {IF match_tokens(toks, name.cur, {"Equal"})
                          THEN expression(toks, advance(toks, name.cur))
                          ELSE POk(<<"Literal", LitNil>>, name.cur)}})

statement(toks, cur) ==
  IF match_tokens(toks, cur, {"Print"})
  THEN print_statement(toks, advance(toks, cur))
  ELSE IF match_tokens(toks, cur, {"LeftBrace"})
       THEN block(toks, advance(toks, cur))
       ELSE expression_statement(toks, cur)

print_statement(toks, cur) ==
  The({IF ~expr.ok THEN expr
       ELSE LET semi == consume(toks, expr.cur, "Semicolon")
            IN  IF ~semi.ok THEN semi
                ELSE POk(<<"Print", expr.node>>, semi.cur) :
       expr \in {expression(toks, cur)}})

expression_statement(toks, cur) ==
  The({IF ~expr.ok THEN expr
       ELSE LET semi == consume(toks, expr.cur, "Semicolon")
            IN  IF ~semi.ok THEN semi
                ELSE POk(<<"Expression", expr.node>>, semi.cur) :
       expr \in {expression(toks, cur)}})

block_loop(toks, stmts, cur) ==
  IF ~check(toks, cur, "RightBrace") /\ ~is_at_end(toks, cur)
  THEN The({IF ~d.ok THEN d
            ELSE block_loop(toks, Append(stmts, d.node), d.cur) :
            d \in {declaration(toks, cur)}})
  ELSE POk(stmts, cur)

block(toks, cur) ==
  The({IF ~body.ok THEN body
       ELSE LET brace == consume(toks, body.cur, "RightBrace")
            IN  IF ~brace.ok THEN brace
                ELSE POk(<<"Block", body.node>>, brace.cur) :
       body \in {block_loop(toks, <<>>, cur)}})

expression(toks, cur) == assignment(toks, cur)

\* A target check that accepts every expression.
IsAssignTarget_Any(expr) == TRUE

\* if let Expr::Variable { name } = expr
IsAssignTarget(expr) == expr[1] = "Variable"

assignment(toks, cur) ==
  The({IF ~expr.ok THEN expr
       ELSE IF match_tokens(toks, expr.cur, {"Equal"})
            THEN LET equals == previous(toks, advance(toks, expr.cur))
                 IN  The({IF ~value.ok THEN value
                          ELSE IF IsAssignTarget(expr.node)
                               THEN POk(<<"Assign", expr.node[2], value.node>>,
                                        value.cur)
                               ELSE PErr(equals, value.cur) :
                          value \in {assignment(toks, advance(toks, expr.cur))}})
            ELSE expr :
       expr \in {equality(toks, cur)}})

equality_loop(toks, expr, cur) ==
  IF match_tokens(toks, cur, {"BangEqual", "EqualEqual"})
  THEN LET operator == previous(toks, advance(toks, cur))
       IN  The({IF ~right_expr.ok THEN right_expr
                ELSE equality_loop(toks,
                       <<"Binary", expr, operator.token_type, right_expr.node>>,
                       right_expr.cur) :
                right_expr \in {comparision(toks, advance(toks, cur))}})
  ELSE POk(expr, cur)

equality(toks, cur) ==
  The({IF ~expr.ok THEN expr ELSE equality_loop(toks, expr.node, expr.cur) :
       expr \in {comparision(toks, cur)}})

comparision_loop(toks, expr, cur) ==
  IF match_tokens(toks, cur, {"Greater", "GreaterEqual", "Less", "LessEqual"})
  THEN LET operator == previous(toks, advance(toks, cur))
       IN  The({IF ~right_expr.ok THEN right_expr
                ELSE comparision_loop(toks,
                       <<"Binary", expr, operator.token_type, right_expr.node>>,
                       right_expr.cur) :
                right_expr \in {term(toks, advance(toks, cur))}})
  ELSE POk(expr, cur)

comparision(toks, cur) ==
  The({IF ~expr.ok THEN expr ELSE comparision_loop(toks, expr.node, expr.cur) :
       expr \in {term(toks, cur)}})

term_loop(toks, expr, cur) ==
  IF match_tokens(toks, cur, {"Minus", "Plus"})
  THEN LET operator == previous(toks, advance(toks, cur))
       IN  The({IF ~right_expr.ok THEN right_expr
                ELSE term_loop(toks,
                       <<"Binary", expr, operator.token_type, right_expr.node>>,
                       right_expr.cur) :
                right_expr \in {factor(toks, advance(toks, cur))}})
  ELSE POk(expr, cur)

term(toks, cur) ==
  The({IF ~expr.ok THEN expr ELSE term_loop(toks, expr.node, expr.cur) :
       expr \in {factor(toks, cur)}})

\* A factor level that also takes `+`.
FactorOperators_WithPlus == {"Slash", "Star", "Plus"}

\* The token types Parser::factor matches.
FactorOperators == {"Slash", "Star"}

factor_loop(toks, expr, cur) ==
  IF match_tokens(toks, cur, FactorOperators)
  THEN LET operator == previous(toks, advance(toks, cur))
       IN  The({IF ~right_expr.ok THEN right_expr
                ELSE factor_loop(toks,
                       <<"Binary", expr, operator.token_type, right_expr.node>>,
                       right_expr.cur) :
                right_expr \in {unary(toks, advance(toks, cur))}})
  ELSE POk(expr, cur)

factor(toks, cur) ==
  The({IF ~expr.ok THEN expr ELSE factor_loop(toks, expr.node, expr.cur) :
       expr \in {unary(toks, cur)}})

unary(toks, cur) ==
  IF match_tokens(toks, cur, {"Bang", "Minus"})
  THEN LET operator == previous(toks, advance(toks, cur))
       IN  The({IF ~right_expr.ok THEN right_expr
                ELSE POk(<<"Unary", operator.token_type, right_expr.node>>,
                         right_expr.cur) :
                right_expr \in {unary(toks, advance(toks, cur))}})
  ELSE primary(toks, cur)

primary(toks, cur) ==
  LET next == advance(toks, cur)
      prev == previous(toks, next)
  IN  IF match_tokens(toks, cur, {"False"}) THEN POk(<<"Literal", LitFalse>>, next)
      ELSE IF match_tokens(toks, cur, {"True"}) THEN POk(<<"Literal", LitTrue>>, next)
      ELSE IF match_tokens(toks, cur, {"Nil"}) THEN POk(<<"Literal", LitNil>>, next)
      ELSE IF match_tokens(toks, cur, {"String"})
           THEN IF prev.literial # <<>> /\ prev.literial[1].t = "StringLiteral"
                THEN POk(<<"Literal", prev.literial[1]>>, next)
                ELSE PErr(peek(toks, next), next)
      ELSE IF match_tokens(toks, cur, {"Number"})
           THEN IF prev.literial # <<>> /\ prev.literial[1].t = "NumberLiteral"
                THEN POk(<<"Literal", prev.literial[1]>>, next)
                ELSE PErr(peek(toks, next), next)
      ELSE IF match_tokens(toks, cur, {"Identifier"})
           THEN POk(<<"Variable", prev.lexeme>>, next)
      ELSE IF match_tokens(toks, cur, {"LeftParen"})
           THEN The({IF ~expr.ok THEN expr
                     ELSE LET paren == consume(toks, expr.cur, "RightParen")
                          IN  IF ~paren.ok THEN paren
                              ELSE POk(<<"Grouping", expr.node>>, paren.cur) :
                     expr \in {expression(toks, next)}})
      ELSE PErr(peek(toks, cur), cur)

(***************************************************************************)
(* Inputs of the parser: token streams assembled from statement texts,     *)
(* one per source line, closed by the Eof token.                           *)
(***************************************************************************)
\* Statements in a source text.
MaxDecls == 3

Tk(token_type, lexeme) ==
  [token_type |-> token_type, lexeme |-> lexeme, literial |-> <<>>]

TkNumber(n) ==
  [token_type |-> "Number", lexeme |-> ToString(n),
   literial |-> <<NumberLiteral(n)>>]

TkString(s) ==
  [token_type |-> "String", lexeme |-> s, literial |-> <<StringLiteral(s)>>]

Semi == Tk("Semicolon", ";")

\* Well-formed statements.
GoodFragments ==
  {<<Tk("Print", "print"), TkNumber(1), Semi>>,
   <<Tk("Var", "var"), Tk("Identifier", "a"), Tk("Equal", "="), TkNumber(1), Semi>>,
   <<Tk("Var", "var"), Tk("Identifier", "b"), Semi>>,
   <<Tk("Identifier", "a"), Tk("Equal", "="), Tk("Identifier", "b"),
     Tk("Plus", "+"), TkNumber(2), Semi>>,
   <<Tk("LeftBrace", "{"), Tk("Print", "print"), Tk("Identifier", "a"), Semi,
     Tk("RightBrace", "}")>>}

\* Malformed statements, each closed by its semicolon.
BadFragments ==
  {<<TkNumber(1), Tk("Plus", "+"), Semi>>,
   <<Tk("Print", "print"), Semi>>,
   <<Tk("Var", "var"), Tk("Equal", "="), TkNumber(1), Semi>>,
   <<Tk("LeftParen", "("), TkNumber(1), Semi>>,
   <<TkNumber(1), Tk("Equal", "="), TkNumber(2), Semi>>}

Fragments == GoodFragments \cup BadFragments

AtLine(tok, line) ==
  [token_type |-> tok.token_type, lexeme |-> tok.lexeme,
   literial |-> tok.literial, line_number |-> line]

RECURSIVE StreamFrom(_, _)
StreamFrom(frags, line) ==
  IF frags = <<>> THEN <<AtLine(Tk("Eof", ""), line)>>
  ELSE [i \in 1..Len(Head(frags)) |-> AtLine(Head(frags)[i], line)]
         \o StreamFrom(Tail(frags), line + 1)

Stream(frags) == StreamFrom(frags, 1)

TokenStreams ==
  {Stream(frags) : frags \in UNION {[1..n -> Fragments] : n \in 0..MaxDecls}}

\* Statements of the documented grammar that use `if`, `else`, `or` and
\* `and`, each paired with the node the grammar gives it.
GrammarTable ==
  {<< <<Tk("If", "if"), Tk("True", "true"), Tk("Print", "print"), TkNumber(1),
        Semi>>,
      <<"If", Lit(LitTrue), <<"Print", Lit(NumberLiteral(1))>>, <<>>>> >>,
   << <<Tk("If", "if"), Tk("Identifier", "a"), Tk("Print", "print"),
        TkNumber(1), Semi, Tk("Else", "else"), Tk("Print", "print"),
        TkNumber(0), Semi>>,
      <<"If", Var("a"), <<"Print", Lit(NumberLiteral(1))>>,
        << <<"Print", Lit(NumberLiteral(0))>> >> >> >>,
   << <<Tk("Print", "print"), Tk("Identifier", "a"), Tk("Or", "or"),
        Tk("Identifier", "b"), Semi>>,
      <<"Print", <<"Logical", Var("a"), "Or", Var("b")>>>> >>,
   << <<Tk("Print", "print"), Tk("Identifier", "a"), Tk("And", "and"),
        Tk("Identifier", "b"), Semi>>,
      <<"Print", <<"Logical", Var("a"), "And", Var("b")>>>> >>,
   << <<Tk("Identifier", "a"), Tk("Equal", "="), Tk("Identifier", "b"),
        Tk("Or", "or"), Tk("Identifier", "a"), Tk("EqualEqual", "=="),
        TkNumber(1), Semi>>,
      <<"Expression",
        <<"Assign", "a",
          <<"Logical", Var("b"), "Or",
            <<"Binary", Var("a"), "EqualEqual", Lit(NumberLiteral(1))>>>>>>>> >>}

GrammarStreams == {Stream(<<c[1]>>) : c \in GrammarTable}

\* Binary operators in one expression, and targets in one assignment chain.
MaxOperators == 2

BinaryOperators ==
  {"Star", "Slash", "Plus", "Minus", "Greater", "GreaterEqual", "Less",
   "LessEqual", "EqualEqual", "BangEqual"}

OperatorToken(op) ==
  CASE op = "Star" -> Tk(op, "*")
    [] op = "Slash" -> Tk(op, "/")
    [] op = "Plus" -> Tk(op, "+")
    [] op = "Minus" -> Tk(op, "-")
    [] op = "Greater" -> Tk(op, ">")
    [] op = "GreaterEqual" -> Tk(op, ">=")
    [] op = "Less" -> Tk(op, "<")
    [] op = "LessEqual" -> Tk(op, "<=")
    [] op = "EqualEqual" -> Tk(op, "==")
    [] op = "BangEqual" -> Tk(op, "!=")
    [] op = "Bang" -> Tk(op, "!")

\* The i-th operand of an expression: a, 2, b, 4, a, ...
OperandName(i) == IF i % 4 = 1 THEN "a" ELSE "b"

OperandToken(i) ==
  IF i % 2 = 1 THEN Tk("Identifier", OperandName(i)) ELSE TkNumber(i)

OperandNode(i) ==
  IF i % 2 = 1 THEN Var(OperandName(i)) ELSE Lit(NumberLiteral(i))

\* Unary operators written before the first operand.
Prefixes == {<<>>, <<"Minus">>, <<"Bang", "Minus">>}

OperatorChains == UNION {[1..n -> BinaryOperators] : n \in 0..MaxOperators}

\* print <prefix> x1 op1 x2 op2 x3 ... ;
ExprTokens(prefix, ops) ==
  <<Tk("Print", "print")>>
    \o [i \in 1..Len(prefix) |-> OperatorToken(prefix[i])]
    \o <<OperandToken(1)>>
    \o [j \in 1..(2 * Len(ops)) |->
          IF j % 2 = 1 THEN OperatorToken(ops[(j + 1) \div 2])
          ELSE OperandToken((j \div 2) + 1)]
    \o <<Semi>>

ExprStreams ==
  {Stream(<<ExprTokens(p, ops)>>) : p \in Prefixes, ops \in OperatorChains}

\* x1 = x3 = ... = 2 + 4 ;   with n targets
AssignTokens(n) ==
  [j \in 1..(2 * n) |->
     IF j % 2 = 1 THEN Tk("Identifier", OperandName(j)) ELSE Tk("Equal", "=")]
    \o <<TkNumber(2), Tk("Plus", "+"), TkNumber(4), Semi>>

AssignStreams == {Stream(<<AssignTokens(n)>>) : n \in 1..MaxOperators}

\* Expressions other than a bare variable reference.
LeftSides ==
  {<<TkNumber(1)>>,
   <<TkString("s")>>,
   <<Tk("Nil", "nil")>>,
   <<Tk("LeftParen", "("), Tk("Identifier", "a"), Tk("RightParen", ")")>>,
   <<Tk("Minus", "-"), Tk("Identifier", "a")>>,
   <<Tk("Bang", "!"), Tk("Identifier", "a")>>,
   <<Tk("Identifier", "a"), Tk("Plus", "+"), Tk("Identifier", "b")>>,
   <<Tk("Identifier", "a"), Tk("Star", "*"), TkNumber(2)>>,
   <<Tk("Identifier", "a"), Tk("Less", "<"), Tk("Identifier", "b")>>,
   <<Tk("Identifier", "a"), Tk("EqualEqual", "=="), TkNumber(1)>>}

\* Right-hand sides that are expressions.
GoodRightSides ==
  {<<TkNumber(1)>>,
   <<Tk("Identifier", "b")>>,
   <<Tk("Identifier", "b"), Tk("Equal", "="), TkNumber(1)>>,
   <<Tk("Identifier", "a"), Tk("Plus", "+"), TkNumber(1)>>}

\* Right-hand sides that are not: nothing, `2 = 3`, `+`, `( b`; each with
\* the position within `rhs ;` of the token its own error names.
BadRightSides ==
  {<< <<>>, 1 >>,
   << <<TkNumber(2), Tk("Equal", "="), TkNumber(3)>>, 2 >>,
   << <<Tk("Plus", "+")>>, 1 >>,
   << <<Tk("LeftParen", "("), Tk("Identifier", "b")>>, 3 >>}

RightSides == GoodRightSides \cup {r[1] : r \in BadRightSides}

\* A stream with every token on a line of its own, so that a line names
\* one token.
OwnLines(toks) ==
  [i \in 1..(Len(toks) + 1) |->
     IF i <= Len(toks) THEN AtLine(toks[i], i) ELSE AtLine(Tk("Eof", ""), i)]

\* lhs = rhs ;
TargetStream(lhs, rhs) ==
  OwnLines(lhs \o <<Tk("Equal", "=")>> \o rhs \o <<Semi>>)

TargetStreams == {TargetStream(l, r) : l \in LeftSides, r \in RightSides}

ParserInputs ==
  TokenStreams \cup GrammarStreams \cup ExprStreams \cup AssignStreams
    \cup TargetStreams

(***************************************************************************)
(* The parser as a state machine: Parser::new(tokens), then parse(), one   *)
(* step per iteration of its loop.  `statements` is the vector parse()     *)
(* accumulates and `parsed` what parse() has returned.                     *)
(***************************************************************************)
Parsing == [status |-> "running", statements |-> <<>>, errors |-> <<>>]

ParserInit ==
  /\ tokens \in ParserInputs
  /\ current = 0
  /\ statements = <<>>
  /\ parsed = Parsing
  /\ environment = EnvironmentNew(<<>>)
  /\ out = <<>>
  /\ stmt = <<>>
  /\ pc = 0
  /\ result = Idle
  /\ steps = 0

\* statements.push(self.declaration()?)
ParseDeclaration ==
  /\ parsed.status = "running"
  /\ ~is_at_end(tokens, current)
  /\ \E d \in {declaration(tokens, current)} :
         /\ current' = d.cur
         /\ IF d.ok
            THEN /\ statements' = Append(statements, d.node)
                 /\ parsed' = parsed
            ELSE /\ statements' = <<>>
                 /\ parsed' = [status |-> "Err", statements |-> <<>>,
                               errors |-> <<d.err>>]
  /\ UNCHANGED <<tokens, interpVars>>

\* Ok(statements)
ParseReturn ==
  /\ parsed.status = "running"
  /\ is_at_end(tokens, current)
  /\ parsed' = [status |-> "Ok", statements |-> statements, errors |-> <<>>]
  /\ UNCHANGED <<tokens, current, statements, interpVars>>

ParserNext == ParseDeclaration \/ ParseReturn

ParserSpec == ParserInit /\ [][ParserNext]_vars

(***************************************************************************)
(* C1.                                                                     *)
(***************************************************************************)
\* C1: for a token stream holding one malformed statement followed by two
\* well-formed statements, parse returns exactly the two well-formed
\* statements together with one recorded error.
C1_ResyncYieldsWellFormed ==
  \A bad \in BadFragments : \A g1 \in GoodFragments : \A g2 \in GoodFragments :
    (tokens = Stream(<<bad, g1, g2>>) /\ parsed.status # "running")
      => /\ parsed.statements = <<declaration(Stream(<<g1>>), 0).node,
                                  declaration(Stream(<<g2>>), 0).node>>
         /\ Len(parsed.errors) = 1

(***************************************************************************)
(* Vocabulary of the interpreter properties.                               *)
(***************************************************************************)
Names == {"a", "b", "u"}

\* The step just taken executed stmt': Step is the only action that
\* increments pc.
IsStep == pc' = pc + 1

Failed == result.status = "err"

Truthy(v) == v.t \notin {"False", "Nil"}

IsPrefix(s, t) == Len(s) <= Len(t) /\ SubSeq(t, 1, Len(s)) = s

Last(s) == s[Len(s)]

\* The interpreter's statement for a parsed declaration (the parser's
\* Stmt::Var is the interpreter's Stmt::Let).
AsLet(node) == <<"Let", node[2], node[3]>>

LitToken(v) ==
  CASE v.t = "NumberLiteral" -> TkNumber(v.n)
    [] v.t = "StringLiteral" -> TkString(v.s)
    [] v.t = "True" -> Tk("True", "true")
    [] v.t = "False" -> Tk("False", "false")
    [] OTHER -> Tk("Nil", "nil")

\* The statement parsed from `var x = <literal v>;`.
DeclWithInit(x, v) ==
  AsLet(declaration(Stream(<< <<Tk("Var", "var"), Tk("Identifier", x),
                                Tk("Equal", "="), LitToken(v), Semi>> >>),
                    0).node)

\* The statement parsed from `var x;`.
DeclNoInit(x) ==
  AsLet(declaration(Stream(<< <<Tk("Var", "var"), Tk("Identifier", x),
                                Semi>> >>),
                    0).node)

(***************************************************************************)
(* C2.                                                                     *)
(***************************************************************************)
\* C2: when a statement fails inside a Block, the scope current after the
\* failed call is the one that was current before the Block was entered: a
\* failing statement leaves the depth of the scope chain as it found it.
C2_ScopeRestoredOnAbort ==
  [][(IsStep /\ result'.status = "err")
       => Depth(environment') = Depth(environment)]_vars

(***************************************************************************)
(* C3.                                                                     *)
(***************************************************************************)
\* Blocks { let x = <literal>; print x; }.
ShadowBlocks ==
  {s \in Stmts : /\ s[1] = "Block"
                 /\ Len(s[2]) = 2
                 /\ s[2][1][1] = "Let"
                 /\ s[2][1][3][1] = "Literal"
                 /\ s[2][2] = <<"Print", Var(s[2][1][2])>>}

RECURSIVE InnerAssign(_)
InnerAssign(s) ==
  IF s[1] = "Block" /\ Len(s[2]) = 1 THEN InnerAssign(s[2][1])
  ELSE IF s[1] = "Expression" /\ s[2][1] = "Assign" /\ s[2][3][1] = "Literal"
       THEN <<s[2][2], s[2][3][2]>>
       ELSE <<>>

AssignBlocks == {s \in Stmts : s[1] = "Block" /\ InnerAssign(s) # <<>>}

\* { let a = 0; { a = a + 1; } print a; }
NearestBlock ==
  <<"Block", << <<"Let", "a", Lit(NumberLiteral(0))>>,
                <<"Block", << <<"Expression", Incr("a")>> >> >>,
                <<"Print", Var("a")>> >> >>

\* C4: an assignment inside nested Blocks to a name defined only in an
\* enclosing scope updates the nearest enclosing scope that defines it,
\* creates no binding in the inner scopes, and the new value is what the
\* name reads as after the blocks have exited.
C4_AssignReachesEnclosingScope ==
  [][/\ (IsStep /\ stmt' \in AssignBlocks
            /\ get(environment, InnerAssign(stmt')[1]).ok)
          => /\ result'.status # "err"
             /\ get(environment', InnerAssign(stmt')[1])
                  = [ok |-> TRUE, v |-> InnerAssign(stmt')[2]]
             /\ environment' = assign(environment, InnerAssign(stmt')[1],
                                      InnerAssign(stmt')[2]).env
             /\ \A n \in Names \ {InnerAssign(stmt')[1]} :
                  get(environment', n) = get(environment, n)
     /\ (IsStep /\ stmt' = NearestBlock)
          => /\ out' = Append(out, "1")
             /\ environment' = environment]_vars

C4_Witness ==
  /\ stmt \in AssignBlocks
  /\ stmt[2][1][1] = "Block"
  /\ pc > 0
  /\ result.status = "running"
  /\ Depth(environment) = 0
  /\ environment.values["a"] = InnerAssign(stmt)[2]

(***************************************************************************)
(* C5.                                                                     *)
(***************************************************************************)
\* C5: Unary Bang returns the complement of the operand's truthiness: True
\* for False and Nil, False for every other value.
C5_BangComplementsTruthiness ==
  [][(IsStep /\ stmt' = <<"Let", "b", <<"Unary", "Bang", Var("a")>>>>
            /\ get(environment, "a").ok)
       => get(environment', "b")
            = [ok |-> TRUE,
               v |-> IF Truthy(get(environment, "a").v)
                     THEN LitFalse ELSE LitTrue]]_vars

(***************************************************************************)
(* C6.                                                                     *)
(***************************************************************************)
\* C6: executing `let x = e;` binds x to the value of e in the current
\* scope, whatever kind of value e produces.
C6_LetWithInitializerBinds ==
  [][\A x \in {"a", "b"} : \A v \in Values :
       (IsStep /\ stmt' = DeclWithInit(x, v))
         => /\ result'.status # "err"
            /\ x \in DOMAIN environment'.values
            /\ environment'.values[x] = v]_vars

(***************************************************************************)
(* C7.                                                                     *)
(***************************************************************************)
\* C7: executing `let x;` binds nothing: the scope chain, the output and the
\* status of the call are unchanged, and a read of x right after it fails
\* with a NameError unless x was already defined, in which case it yields
\* the earlier binding's value.
C7_LetWithoutInitializerBindsNothing ==
  [][\A x \in {"a", "b"} :
       /\ (IsStep /\ stmt' = DeclNoInit(x))
            => /\ environment' = environment
               /\ out' = out
               /\ result' = result
       /\ (IsStep /\ pc > 0 /\ stmt = DeclNoInit(x)
              /\ stmt' = <<"Print", Var(x)>>)
            => IF get(environment, x).ok
               THEN /\ result'.status # "err"
                    /\ out' = Append(out, two_string(get(environment, x).v))
               ELSE /\ result' = [status |-> "err", err |-> "NameError"]
                    /\ out' = out]_vars

C7_Witness ==
  /\ stmt = DeclNoInit("b")
  /\ pc > 0
  /\ result.status = "running"
  /\ ~get(environment, "b").ok
  /\ get(environment, "a").ok

(***************************************************************************)
(* C8.                                                                     *)
(***************************************************************************)
\* u = 1; and u; : u is never declared.
PureFailing ==
  {<<"Expression", Var("u")>>,
   <<"Expression", <<"Assign", "u", Lit(NumberLiteral(1))>>>>}

\* (a = 1) + nil;
AssignThenTypeError ==
  <<"Expression",
    <<"Binary", <<"Assign", "a", Lit(NumberLiteral(1))>>, "Plus", Lit(LitNil)>>>>

\* { print "t"; -a; print "e"; }
EmitThenNegate ==
  <<"Block", << EmitT, <<"Expression", <<"Unary", "Minus", Var("a")>>>>,
                EmitE >> >>

\* C8: the statements run in order; the first one that raises a runtime
\* error ends the call with that error, no later statement is executed, and
\* the output and the variable mutations made before the error (also by the
\* sub-expressions of the failing statement) stay in effect.
C8_RunAbortsAtFirstError ==
  [][/\ Failed => (~IsStep /\ environment' = environment)
     /\ IsStep
          => /\ IsPrefix(out, out')
             /\ IF execute(stmt', environment, out).ok
                THEN result' = Running
                ELSE result' = [status |-> "err",
                                err |-> execute(stmt', environment, out).err]
     /\ (IsStep /\ stmt' \in PureFailing)
          => /\ result' = [status |-> "err", err |-> "NameError"]
             /\ environment' = environment
             /\ out' = out
     /\ (IsStep /\ stmt' = AssignThenTypeError /\ get(environment, "a").ok)
          => /\ result' = [status |-> "err", err |-> "TypeError"]
             /\ get(environment', "a") = [ok |-> TRUE, v |-> NumberLiteral(1)]
     /\ (IsStep /\ stmt' = EmitThenNegate /\ get(environment, "a").ok)
          => IF get(environment, "a").v.t = "NumberLiteral"
             THEN /\ result' = Running
                  /\ out' = out \o <<"t", "e">>
             ELSE /\ result' = [status |-> "err", err |-> "TypeError"]
                  /\ out' = Append(out, "t")]_vars

C8_Witness ==
  /\ Failed
  /\ pc = 2
  /\ stmt = EmitThenNegate
  /\ out = <<"s", "t">>
  /\ get(environment, "a") = [ok |-> TRUE, v |-> StringLiteral("s")]

(***************************************************************************)
(* C9.                                                                     *)
(***************************************************************************)
LogicalLets == {s \in Stmts : s[1] = "Let" /\ s[3][1] = "Logical"}

\* let b = a <op> (a = "s");
LogicalAssign(op) ==
  <<"Let", "b", <<"Logical", Var("a"), op,
                  <<"Assign", "a", Lit(StringLiteral("s"))>>>>>>

\* let b = a <op> u;   (u is never declared)
LogicalUndefined(op) == <<"Let", "b", <<"Logical", Var("a"), op, Var("u")>>>>

ShortCircuits(op, v) == (op = "Or" /\ Truthy(v)) \/ (op = "And" /\ ~Truthy(v))

\* C9: the left operand of a Logical is evaluated first; Or with a truthy
\* left and And with a falsy left yield the left value itself without
\* evaluating the right operand (none of its effects or errors occur);
\* otherwise the right operand is evaluated and its value is the result.
C9_LogicalShortCircuit ==
  [][/\ (IsStep /\ stmt' \in LogicalLets)
          => LET e == stmt'[3]
                 left == evaluate(e[2], environment)
                 right == evaluate(e[4], left.env)
             IN  IF ~left.ok
                 THEN /\ result' = [status |-> "err", err |-> left.err]
                      /\ environment' = left.env
                 ELSE IF ShortCircuits(e[3], left.v)
                 THEN /\ result' = Running
                      /\ environment' = define(left.env, stmt'[2], left.v)
                 ELSE IF right.ok
                 THEN /\ result' = Running
                      /\ environment' = define(right.env, stmt'[2], right.v)
                 ELSE /\ result' = [status |-> "err", err |-> right.err]
                      /\ environment' = right.env
     /\ \A op \in {"And", "Or"} :
          /\ (IsStep /\ stmt' = LogicalAssign(op) /\ get(environment, "a").ok)
               => /\ result' = Running
                  /\ IF ShortCircuits(op, get(environment, "a").v)
                     THEN /\ get(environment', "a") = get(environment, "a")
                          /\ get(environment', "b") = get(environment, "a")
                     ELSE /\ get(environment', "a").v = StringLiteral("s")
                          /\ get(environment', "b").v = StringLiteral("s")
          /\ (IsStep /\ stmt' = LogicalUndefined(op) /\ get(environment, "a").ok)
               => IF ShortCircuits(op, get(environment, "a").v)
                  THEN /\ result' = Running
                       /\ get(environment', "b") = get(environment, "a")
                  ELSE /\ result' = [status |-> "err", err |-> "NameError"]
                       /\ environment' = environment]_vars

C9_Witness ==
  /\ stmt = LogicalUndefined("And")
  /\ pc > 0
  /\ result.status = "running"
  /\ get(environment, "a") = [ok |-> TRUE, v |-> LitNil]
  /\ get(environment, "b") = [ok |-> TRUE, v |-> LitNil]

(***************************************************************************)
(* C10.                                                                    *)
(***************************************************************************)
\* if (a = a + 1) > 1 print a; else print "e";
IfIncr ==
  <<"If", <<"Binary", Incr("a"), "Greater", Lit(NumberLiteral(1))>>,
    <<"Print", Var("a")>>, <<EmitE>>>>

\* C10: an If evaluates its condition once and executes exactly one of: the
\* then-branch when the value is truthy (anything but False and Nil), the
\* else-branch when it is falsy and there is one, nothing when it is falsy
\* and there is none.
C10_IfSelectsOneBranch ==
  [][/\ (IsStep /\ stmt'[1] = "If")
          => LET c == evaluate(stmt'[2], environment)
                 chosen == IF Truthy(c.v) THEN <<stmt'[3]>> ELSE stmt'[4]
                 r == execute(chosen[1], c.env, out)
             IN  IF ~c.ok
                 THEN /\ result' = [status |-> "err", err |-> c.err]
                      /\ environment' = c.env
                      /\ out' = out
                 ELSE IF chosen = <<>>
                 THEN /\ result' = Running
                      /\ environment' = c.env
                      /\ out' = out
                 ELSE /\ environment' = r.env
                      /\ out' = r.out
                      /\ (result'.status = "err") = ~r.ok
     /\ (IsStep /\ stmt' = <<"If", Var("a"), EmitT, <<EmitE>>>>
            /\ get(environment, "a").ok)
          => /\ result' = Running
             /\ environment' = environment
             /\ out' = Append(out, IF Truthy(get(environment, "a").v)
                                   THEN "t" ELSE "e")
     /\ (IsStep /\ stmt' = <<"If", Var("a"), EmitT, <<>>>>
            /\ get(environment, "a").ok)
          => /\ result' = Running
             /\ environment' = environment
             /\ out' = IF Truthy(get(environment, "a").v)
                       THEN Append(out, "t") ELSE out
     /\ (IsStep /\ stmt' = IfIncr /\ get(environment, "a").ok
            /\ get(environment, "a").v.t = "NumberLiteral")
          => /\ result' = Running
             /\ get(environment', "a").v
                  = NumberLiteral(get(environment, "a").v.n + 1)
             /\ out' = Append(out, IF get(environment, "a").v.n + 1 > 1
                                   THEN ToString(get(environment, "a").v.n + 1)
                                   ELSE "e")]_vars

C10_Witness ==
  /\ stmt = <<"If", Var("a"), EmitT, <<EmitE>>>>
  /\ pc > 0
  /\ result.status = "running"
  /\ get(environment, "a") = [ok |-> TRUE, v |-> NumberLiteral(0)]
  /\ Last(out) = "t"

(***************************************************************************)
(* C11.                                                                    *)
(***************************************************************************)
\* u = 1;
AssignUndefined == <<"Expression", <<"Assign", "u", Lit(NumberLiteral(1))>>>>

\* u = (a = 1);
AssignUndefinedAfterEffect ==
  <<"Expression", <<"Assign", "u", <<"Assign", "a", Lit(NumberLiteral(1))>>>>>>

NameError == [status |-> "err", err |-> "NameError"]

\* C11: reading or assigning a name that no scope of the chain defines is a
\* NameError; the failed assignment creates no binding and leaves every
\* existing binding unchanged, but the effects of its value expression,
\* evaluated before the store, remain.
C11_UndefinedNameIsNameError ==
  [][/\ (IsStep /\ stmt' = <<"Expression", Var("u")>>)
          => (result' = NameError /\ environment' = environment)
     /\ \A x \in {"a", "b"} :
          (IsStep /\ stmt' = <<"Print", Var(x)>> /\ ~get(environment, x).ok)
            => (result' = NameError /\ environment' = environment /\ out' = out)
     /\ (IsStep /\ stmt' = AssignUndefined)
          => (result' = NameError /\ environment' = environment)
     /\ (IsStep /\ stmt' = <<"Block", <<AssignUndefined>>>>)
          => /\ result' = NameError
             /\ \A n \in Names : get(environment', n) = get(environment, n)
     /\ (IsStep /\ stmt' = AssignUndefinedAfterEffect
            /\ get(environment, "a").ok)
          => /\ result' = NameError
             /\ ~get(environment', "u").ok
             /\ get(environment', "a") = [ok |-> TRUE, v |-> NumberLiteral(1)]
             /\ get(environment', "b") = get(environment, "b")
             /\ environment'
                  = assign(environment, "a", NumberLiteral(1)).env]_vars

C11_Witness ==
  /\ stmt = AssignUndefinedAfterEffect
  /\ result = NameError
  /\ pc = 3
  /\ get(environment, "a") = [ok |-> TRUE, v |-> NumberLiteral(1)]
  /\ get(environment, "b") = [ok |-> TRUE, v |-> NumberLiteral(1)]
  /\ ~get(environment, "u").ok

(***************************************************************************)
(* C12.                                                                    *)
(***************************************************************************)
\* print a = <literal v>;
PrintAssign(v) == <<"Print", <<"Assign", "a", Lit(v)>>>>

PrintAssigns == {s \in Stmts : s[1] = "Print" /\ s[2][1] = "Assign"}

\* a = a + 1;
IncrA == <<"Expression", Incr("a")>>

\* C12: an assignment to a defined name yields the assigned value as its own
\* result (print a = v prints v) and the next read of the name yields that
\* value; a = a + 1 on a Number n leaves a reading as n + 1.
C12_AssignYieldsValue ==
  [][/\ (IsStep /\ stmt' \in PrintAssigns /\ get(environment, "a").ok)
          => /\ result' = Running
             /\ out' = Append(out, two_string(stmt'[2][3][2]))
             /\ get(environment', "a") = [ok |-> TRUE, v |-> stmt'[2][3][2]]
             /\ environment' = assign(environment, "a", stmt'[2][3][2]).env
     /\ (IsStep /\ pc > 0 /\ result = Running /\ stmt \in PrintAssigns
            /\ stmt' = <<"Print", Var("a")>>)
          => /\ result' = Running
             /\ out' = Append(out, two_string(stmt[2][3][2]))
             /\ Last(out) = two_string(stmt[2][3][2])
     /\ (IsStep /\ stmt' = IncrA /\ get(environment, "a").ok
            /\ get(environment, "a").v.t = "NumberLiteral")
          => /\ result' = Running
             /\ out' = out
             /\ get(environment', "a")
                  = [ok |-> TRUE,
                     v |-> NumberLiteral(get(environment, "a").v.n + 1)]
     /\ (IsStep /\ pc > 0 /\ result = Running /\ stmt = IncrA
            /\ stmt' = <<"Print", Var("a")>>)
          => /\ result' = Running
             /\ out' = Append(out, two_string(get(environment, "a").v))]_vars

C12_Witness ==
  /\ stmt = <<"Print", Var("a")>>
  /\ pc = 3
  /\ result = Running
  /\ out = <<"1", "1">>
  /\ get(environment, "a") = [ok |-> TRUE, v |-> NumberLiteral(1)]

(***************************************************************************)
(* C13.                                                                    *)
(***************************************************************************)
TypeError == [status |-> "err", err |-> "TypeError"]

IsNumber(v) == v.t = "NumberLiteral"

IsString(v) == v.t = "StringLiteral"

\* C13: unary minus, binary - / * and the comparisons return a value exactly
\* when every operand is a Number and are a TypeError otherwise; binary +
\* returns a value exactly when both operands are Numbers (their sum) or
\* both are Strings (left followed by right) and is a TypeError otherwise.
C13_OperatorTyping ==
  [][LET a == get(environment, "a").v
         b == get(environment, "b").v
     IN  /\ \A op \in NumberOperators :
              (IsStep /\ stmt' = Apply(op))
                => IF IsNumber(a) /\ IsNumber(b)
                   THEN /\ result' = Running
                        /\ get(environment', "b").ok
                        /\ get(environment', "b").v.t
                             \in {"NumberLiteral", "True", "False"}
                   ELSE /\ result' = TypeError
                        /\ environment' = environment
         /\ (IsStep /\ stmt' = Negate)
              => IF IsNumber(a)
                 THEN /\ result' = Running
                      /\ IsNumber(get(environment', "b").v)
                 ELSE /\ result' = TypeError
                      /\ environment' = environment
         /\ (IsStep /\ stmt' = Apply("Plus"))
              => IF IsNumber(a) /\ IsNumber(b)
                 THEN /\ result' = Running
                      /\ IsNumber(get(environment', "b").v)
                      /\ (a.s = "" /\ b.s = "")
                           => get(environment', "b").v = NumberLiteral(a.n + b.n)
                 ELSE IF IsString(a) /\ IsString(b)
                 THEN /\ result' = Running
                      /\ get(environment', "b").v = StringLiteral(a.s \o b.s)
                 ELSE /\ result' = TypeError
                      /\ environment' = environment]_vars

C13_Witness ==
  /\ stmt = Apply("Plus")
  /\ result = TypeError
  /\ get(environment, "a") = [ok |-> TRUE, v |-> StringLiteral("s")]
  /\ get(environment, "b") = [ok |-> TRUE, v |-> NumberLiteral(1)]

(***************************************************************************)
(* C14.                                                                    *)
(***************************************************************************)
ParsedOk(nodes) == [status |-> "Ok", statements |-> nodes, errors |-> <<>>]

\* C14: the parser implements every production of the documented grammar:
\* a statement starting with `if` is parsed into an If node, and `or` /
\* `and` into Logical nodes between assignment and equality.
C14_GrammarImplemented ==
  \A c \in GrammarTable :
    (tokens = Stream(<<c[1]>>) /\ parsed.status # "running")
      => parsed = ParsedOk(<<c[2]>>)

(***************************************************************************)
(* C15.                                                                    *)
(***************************************************************************)
\* Binding strength of the documented grammar.
Prec(op) ==
  CASE op \in {"Star", "Slash"} -> 4
    [] op \in {"Plus", "Minus"} -> 3
    [] op \in {"Greater", "GreaterEqual", "Less", "LessEqual"} -> 2
    [] op \in {"EqualEqual", "BangEqual"} -> 1

\* The tree of x1 op1 x2 op2 ...: the leftmost of the tightest operators is
\* grouped first.
RECURSIVE Reduce(_, _)
Reduce(operands, ops) ==
  IF ops = <<>> THEN operands[1]
  ELSE LET i == CHOOSE k \in 1..Len(ops) :
                  /\ \A m \in 1..Len(ops) : Prec(ops[m]) <= Prec(ops[k])
                  /\ \A m \in 1..(k - 1) : Prec(ops[m]) < Prec(ops[k])
       IN  Reduce(SubSeq(operands, 1, i - 1)
                    \o << <<"Binary", operands[i], ops[i], operands[i + 1]>> >>
                    \o SubSeq(operands, i + 2, Len(operands)),
                  SubSeq(ops, 1, i - 1) \o SubSeq(ops, i + 1, Len(ops)))

\* Unary operators nest to the right around the operand.
RECURSIVE PrefixNode(_, _)
PrefixNode(prefix, node) ==
  IF prefix = <<>> THEN node
  ELSE <<"Unary", Head(prefix), PrefixNode(Tail(prefix), node)>>

ExprNode(prefix, ops) ==
  <<"Print",
    Reduce([i \in 1..(Len(ops) + 1) |->
              IF i = 1 THEN PrefixNode(prefix, OperandNode(1))
              ELSE OperandNode(i)],
           ops)>>

\* Assignments nest to the right: x1 = (x3 = (... = 2 + 4)).
RECURSIVE AssignNode(_, _)
AssignNode(k, n) ==
  IF k > n
  THEN <<"Binary", Lit(NumberLiteral(2)), "Plus", Lit(NumberLiteral(4))>>
  ELSE <<"Assign", OperandName(2 * k - 1), AssignNode(k + 1, n)>>

PrecedenceTable ==
  {<<Stream(<<ExprTokens(p, ops)>>), ExprNode(p, ops)>> :
      p \in Prefixes, ops \in OperatorChains}
    \cup {<<Stream(<<AssignTokens(n)>>), <<"Expression", AssignNode(1, n)>>>> :
            n \in 1..MaxOperators}

\* C15: the tree built for an expression encodes the documented precedence
\* and associativity: * / bind tighter than + -, these tighter than the
\* comparisons, these tighter than == !=; operators of one level nest to
\* the left, unary operators and assignment to the right.
C15_PrecedenceAndAssociativity ==
  parsed.status # "running"
    => \A c \in PrecedenceTable :
         tokens = c[1] => parsed = ParsedOk(<<c[2]>>)

\* print a + 2 * b;  parsed as  a + (2 * b)
C15_Witness ==
  /\ parsed.status = "Ok"
  /\ tokens = Stream(<<ExprTokens(<<>>, <<"Plus", "Star">>)>>)
  /\ parsed.statements
       = << <<"Print", <<"Binary", Var("a"), "Plus",
                         <<"Binary", Lit(NumberLiteral(2)), "Star",
                           Var("b")>>>>>> >>

(***************************************************************************)
(* C16.                                                                    *)
(***************************************************************************)
ErrorAt(toks, i) ==
  [status |-> "Err", statements |-> <<>>,
   errors |-> <<[line |-> toks[i].line_number, lexeme |-> toks[i].lexeme]>>]

\* C16 as stated: whenever the expression left of an `=` is not a bare
\* variable, parsing the statement fails with the error reported at the
\* line and lexeme of that `=` token, and no Assign node is produced.
C16_ErrorAtEqual ==
  parsed.status # "running"
    => \A l \in LeftSides, r \in RightSides :
         tokens = TargetStream(l, r) => parsed = ErrorAt(tokens, Len(l) + 1)

\* C16 as amended: whenever the expression left of an `=` is not a bare
\* variable, parsing the statement fails and no statement is produced; the
\* error is reported at the line and lexeme of that `=` token when the
\* right-hand side is an expression, and otherwise it is the error of the
\* right-hand side, which is parsed first.
C16_InvalidTarget ==
  parsed.status # "running"
    => /\ \A l \in LeftSides, r \in GoodRightSides :
            tokens = TargetStream(l, r)
              => parsed = ErrorAt(tokens, Len(l) + 1)
       /\ \A l \in LeftSides, r \in BadRightSides :
            tokens = TargetStream(l, r[1])
              => parsed = ErrorAt(tokens, Len(l) + 1 + r[2])

\* a + b = b = 1;  refused at the first `=`, on line 4
C16_Witness ==
  /\ tokens = TargetStream(<<Tk("Identifier", "a"), Tk("Plus", "+"),
                             Tk("Identifier", "b")>>,
                           <<Tk("Identifier", "b"), Tk("Equal", "="),
                             TkNumber(1)>>)
  /\ parsed = [status |-> "Err", statements |-> <<>>,
               errors |-> <<[line |-> 4, lexeme |-> "="]>>]

(***************************************************************************)
(* C17.                                                                    *)
(***************************************************************************)
\* The cursor value at which the Eof token is under the cursor.
EofIndex(toks) ==
  CHOOSE i \in 0..(Len(toks) - 1) :
    /\ toks[i + 1].token_type = "Eof"
    /\ \A j \in 0..(i - 1) : toks[j + 1].token_type # "Eof"

CursorWithin(toks, cur) == cur \in 0..EofIndex(toks)

\* From cursor c, every method that moves the cursor leaves it between c
\* and the Eof token.
MovesWithin(toks, c) ==
  /\ advance(toks, c) \in c..EofIndex(toks)
  /\ synchronize(toks, c) \in c..EofIndex(toks)
  /\ ~is_at_end(toks, c)
       => /\ declaration(toks, c).cur \in c..EofIndex(toks)
          /\ expression(toks, c).cur \in c..EofIndex(toks)

\* C17: for every stream ending in Eof the cursor stays between 0 and the
\* index of the Eof token and never decreases, across parse() and within
\* advance, synchronize and the parsing methods from every cursor position
\* ahead; and previous() is not read at cursor 0: when the first token is
\* Eof no declaration and no recovery runs.
C17_CursorWithinStream ==
  [][/\ CursorWithin(tokens, current)
     /\ CursorWithin(tokens', current')
     /\ current' >= current
     /\ \A c \in current..EofIndex(tokens) : MovesWithin(tokens, c)
     /\ is_at_end(tokens, 0) => parsed' = ParsedOk(<<>>)]_vars

\* 1 + ;  print 1;   the error is raised at `;` (cursor 2) and the recovery
\* stops behind it, at cursor 3, before `print`.
C17_Witness ==
  /\ tokens = Stream(<< <<TkNumber(1), Tk("Plus", "+"), Semi>>,
                       <<Tk("Print", "print"), TkNumber(1), Semi>> >>)
  /\ parsed.status = "Err"
  /\ current = 3
  /\ current < EofIndex(tokens)

(***************************************************************************)
(* C18.                                                                    *)
(***************************************************************************)
\* nil - (a = a + 1);
NilMinusIncr ==
  <<"Expression",
    <<"Binary", Lit(LitNil), "Minus", <<"Grouping", Incr("a")>>>>>>

\* true + (a = "s");
TruePlusAssign ==
  <<"Expression",
    <<"Binary", Lit(LitTrue), "Plus",
      <<"Grouping", <<"Assign", "a", Lit(StringLiteral("s"))>>>>>>>>

\* nil - u;
NilMinusUndefined ==
  <<"Expression", <<"Binary", Lit(LitNil), "Minus", Var("u")>>>>

\* C18: a Binary evaluates its right operand completely before it checks
\* the operand kinds: with a left operand of the wrong kind, an assignment
\* made by the right operand is in effect when the TypeError is raised, and
\* an error raised by the right operand is reported instead of the
\* TypeError.
C18_RightOperandBeforeTypeCheck ==
  [][IsStep
       => /\ stmt' = NilMinusIncr
               => LET a == get(environment, "a")
                  IN  IF ~a.ok
                      THEN result' = NameError /\ environment' = environment
                      ELSE /\ result' = TypeError
                           /\ IF IsNumber(a.v)
                              THEN get(environment', "a").v
                                     = NumberLiteral(a.v.n + 1)
                              ELSE environment' = environment
          /\ stmt' = TruePlusAssign
               => IF get(environment, "a").ok
                  THEN /\ result' = TypeError
                       /\ get(environment', "a").v = StringLiteral("s")
                  ELSE result' = NameError /\ environment' = environment
          /\ stmt' = NilMinusUndefined
               => result' = NameError /\ environment' = environment]_vars

\* let a = 1;  nil - (a = a + 1);   ends in a TypeError with a = 2
C18_Witness ==
  /\ stmt = NilMinusIncr
  /\ result = TypeError
  /\ pc = 2
  /\ get(environment, "a") = [ok |-> TRUE, v |-> NumberLiteral(2)]

====
